---- MODULE Spec2Model ----
(***************************************************************************)
(* One request through the application of src/lib/application.js: the     *)
(* middleware list, the composed chain, the context's respond and onerror  *)
(* (src/unnamed/part_000), the response accessors (src/lib/response.js)    *)
(* over a node-style transport response, and the request accessors         *)
(* (src/unnamed/part_000) over the incoming message.                       *)
(*                                                                         *)
(* Text is a sequence of code points; Buffer.byteLength is its UTF-8       *)
(* length.  A header value is TLA+ text for ordinary fields, a record      *)
(* [mime, charset] for content-type and a digit sequence for               *)
(* content-length.  The request headers that the code takes apart (Host,   *)
(* Referrer, X-Forwarded-*, If-None-Match) are sequences of code points.   *)
(***************************************************************************)
EXTENDS Integers, Sequences, FiniteSets, TLC

\* ------------------------------------------------------------------ bounds
MaxMiddleware == 3
MaxOps == 1
MaxStreams == 1
MaxAssign == 2
MaxCalls == 2

\* -------------------------------------------------------------------- text
\* one unit for every code point: the length in characters
Utf8Width_perCharacter(cp) == 1

\* UTF-8 width of one code point (Buffer.byteLength, one character)
Utf8Width(cp) ==
  IF cp < 128 THEN 1 ELSE IF cp < 2048 THEN 2 ELSE IF cp < 65536 THEN 3 ELSE 4

RECURSIVE byteLength(_)
byteLength(s) ==
  IF s = <<>> THEN 0 ELSE Utf8Width(Head(s)) + byteLength(Tail(s))

RECURSIVE Digits(_)
Digits(n) ==
  IF n < 10 THEN <<48 + n>> ELSE Digits(n \div 10) \o <<48 + (n % 10)>>

\* String(n) for a non-negative integer n: its decimal digits
String(n) == Digits(n)

\* ---------------------------------------------------------------- statuses
\* the codes of the statuses table that the model uses
StatusCodes == {200, 204, 205, 301, 302, 304, 400, 401, 404, 500}

\* statuses.empty
EmptyStatus == {204, 205, 304}

\* statuses.redirect
RedirectStatus == {300, 301, 302, 303, 305, 307, 308}

\* statuses[code]: the reason phrase of a recognized code
StatusText(code) ==
  CASE code = 200 -> <<79, 75>>
    [] code = 204 -> <<78, 111, 32, 67, 111, 110, 116, 101, 110, 116>>
    [] code = 205 -> <<82, 101, 115, 101, 116, 32, 67, 111, 110, 116, 101, 110, 116>>
    [] code = 301 -> <<77, 111, 118, 101, 100, 32, 80, 101, 114, 109, 97, 110, 101, 110, 116,
                       108, 121>>
    [] code = 302 -> <<70, 111, 117, 110, 100>>
    [] code = 304 -> <<78, 111, 116, 32, 77, 111, 100, 105, 102, 105, 101, 100>>
    [] code = 400 -> <<66, 97, 100, 32, 82, 101, 113, 117, 101, 115, 116>>
    [] code = 401 -> <<85, 110, 97, 117, 116, 104, 111, 114, 105, 122, 101, 100>>
    [] code = 404 -> <<78, 111, 116, 32, 70, 111, 117, 110, 100>>
    [] code = 500 -> <<73, 110, 116, 101, 114, 110, 97, 108, 32, 83, 101, 114,
                       118, 101, 114, 32, 69, 114, 114, 111, 114>>
    [] OTHER -> <<>>

\* ------------------------------------------------------------ JS values
\* a value assigned to a status: [type, num]
Num(n) == [type |-> "number", num |-> n]
Str(n) == [type |-> "string", num |-> n]
Undefined == [type |-> "undefined", num |-> 0]

\* typeof v === 'number' && statuses[v]
IsStatus(v) == v.type = "number" /\ v.num \in StatusCodes

\* body values: [kind, val, id]
NullBody == [kind |-> "null", val |-> <<>>, id |-> 0]
TextBody(t) == [kind |-> "text", val |-> t, id |-> 0]
BufferBody(b) == [kind |-> "buffer", val |-> b, id |-> 0]
StreamBody(i) == [kind |-> "stream", val |-> <<>>, id |-> i]
\* a structured value, carried as its JSON.stringify text
JsonBody(t) == [kind |-> "json", val |-> t, id |-> 0]

\* JS truthiness of a body value: null and '' are falsy
Truthy(b) == b.kind # "null" /\ ~(b.kind = "text" /\ b.val = <<>>)

\* mime-types contentType(type) for the shorthands the code passes
contentType(type) ==
  CASE type = "text" -> [mime |-> "text/plain", charset |-> "utf-8"]
    [] type = "html" -> [mime |-> "text/html", charset |-> "utf-8"]
    [] type = "json" -> [mime |-> "application/json", charset |-> "utf-8"]
    [] type = "bin" -> [mime |-> "application/octet-stream", charset |-> ""]
    [] OTHER -> [mime |-> "", charset |-> ""]

\* ------------------------------------------------- the transport response
\* The record c holds one request's objects: the transport response res
\* (statusCode, statusMessage, headers, headersSent, finished, socket), the
\* incoming message req (method, httpVersionMajor, url, reqHeaders, encrypted,
\* remoteAddress), the request's own fields (originalUrl, _parsedUrl), the
\* application's proxy setting (app), the
\* response's own fields (_explicitStatus, _body), the streams that were
\* assigned as body, the listeners registered with onFinished, the 'error'
\* events emitted on the application, and what reached res.end (wire).

NoHeaders == [k \in {} |-> ""]

\* res.setHeader(field, val)
setHeader(h, field, val) ==
  [k \in (DOMAIN h) \cup {field} |-> IF k = field THEN val ELSE h[k]]

\* res.removeHeader(field)
removeHeader(h, field) == [k \in (DOMAIN h) \ {field} |-> h[k]]

\* res.end(payload): a finished response ignores it; otherwise the headers go
\* out with the payload and the response is finished.  has = FALSE is end()
\* with no argument.  Every invocation is counted.
end(c, has, payload) ==
  IF c.finished
  THEN [c EXCEPT !.wire.endCalls = @ + 1]
  ELSE [c EXCEPT !.headersSent = TRUE, !.finished = TRUE,
                 !.wire.endCalls = @ + 1, !.wire.ended = TRUE,
                 !.wire.hasPayload = has, !.wire.payload = payload]

\* ------------------------------------------------------------ response.js
\* writable without the test of res.finished
writable_ignoresFinished(c) ==
  IF c.socket # "none" THEN c.socket = "writable" ELSE TRUE

\* response.writable
writable(c) ==
  IF c.finished THEN FALSE
  ELSE IF c.socket # "none" THEN c.socket = "writable" ELSE TRUE

headersSent(c) == c.headersSent

\* response.flushHeaders()
flushHeaders(c) == [c EXCEPT !.headersSent = TRUE]

\* set without the test of headersSent
set_ignoresHeadersSent(c, field, val) ==
  [c EXCEPT !.headers = setHeader(@, field, val)]

\* response.set(field, val)
set(c, field, val) ==
  IF headersSent(c) THEN c
  ELSE [c EXCEPT !.headers = setHeader(@, field, val)]


\* response.set(map): one set per key of the map
setAll(c, map) ==
  IF headersSent(c) THEN c
  ELSE [c EXCEPT !.headers =
          [k \in (DOMAIN @) \cup (DOMAIN map) |->
             IF k \in DOMAIN map THEN map[k] ELSE @[k]]]

\* remove with the test of headersSent inverted
remove_guardInverted(c, field) ==
  IF ~headersSent(c) THEN c
  ELSE [c EXCEPT !.headers = removeHeader(@, field)]

\* response.remove(field)
remove(c, field) ==
  IF headersSent(c) THEN c
  ELSE [c EXCEPT !.headers = removeHeader(@, field)]

\* response.append(field, val).  The value of a field that takes several
\* values is held as the list of them, a single value as the list of one.
append(c, field, val) ==
  IF headersSent(c) THEN c
  ELSE LET original == IF field \in DOMAIN c.headers THEN c.headers[field]
                       ELSE <<>>
       IN set(c, field, IF original # <<>> THEN original \o val ELSE val)

\* response.vary(field): the field joins the tokens of Vary unless it is among
\* them already or Vary is '*'
vary(c, field) ==
  IF headersSent(c) THEN c
  ELSE LET tokens == IF "vary" \in DOMAIN c.headers THEN c.headers["vary"]
                     ELSE <<>>
       IN IF \E k \in DOMAIN tokens : tokens[k] \in {field, "*"} THEN c
          ELSE [c EXCEPT !.headers = setHeader(@, "vary", Append(tokens, field))]

\* response.etag = val: val is quoted unless it starts with '"' or 'W/"'
setEtag(c, val) ==
  LET quoted == \/ Len(val) >= 1 /\ val[1] = 34
                \/ Len(val) >= 3 /\ SubSeq(val, 1, 3) = <<87, 47, 34>>
  IN set(c, "etag", IF quoted THEN val ELSE <<34>> \o val \o <<34>>)

\* response.lastModified = val, val a time in milliseconds: toUTCString
\* keeps the whole seconds
setLastModified(c, val) == set(c, "last-modified", val \div 1000)

\* response.length = n
setLength(c, n) == set(c, "content-length", String(n))

\* ~~len for the digits of a Content-Length header
RECURSIVE ToInt32(_)
ToInt32(d) ==
  IF d = <<>> THEN 0 ELSE 10 * ToInt32(SubSeq(d, 1, Len(d) - 1)) + (d[Len(d)] - 48)

\* response.length: the Content-Length header as a number; without the
\* header, the byte length of a text, buffer or json body; otherwise null,
\* which is -1 here
getLength(c) ==
  IF "content-length" \in DOMAIN c.headers
  THEN ToInt32(c.headers["content-length"])
  ELSE IF ~Truthy(c._body) THEN -1
  ELSE IF c._body.kind = "text" THEN byteLength(c._body.val)
  ELSE IF c._body.kind = "buffer" THEN Len(c._body.val)
  ELSE IF c._body.kind = "json" THEN byteLength(c._body.val)
  ELSE -1

\* response.type = type
setType(c, type) ==
  LET t == contentType(type)
  IN IF t.mime # "" THEN set(c, "content-type", t)
     ELSE remove(c, "content-type")

\* response.type: the mime type without parameters
getType(c) ==
  IF "content-type" \in DOMAIN c.headers
  THEN c.headers["content-type"].mime ELSE ""

\* response.message
message(c) == c.statusMessage

\* the status setter without the test against the statuses table
statusThrows_typeOnly(c, code) ==
  IF headersSent(c) THEN "none"
  ELSE IF code.type # "number" THEN "TypeError"
  ELSE "none"

\* what `response.status = code` throws, checked before any mutation
statusThrows(c, code) ==
  IF headersSent(c) THEN "none"
  ELSE IF code.type # "number" THEN "TypeError"
  ELSE IF code.num \notin StatusCodes THEN "RangeError"
  ELSE "none"

\* a destroy that releases nothing
destroy_nothing(c, id) == c

\* destroy(stream)
destroy(c, id) == [c EXCEPT !.streams[id].destroyed = TRUE]

\* /^\s*</.test(val): the text starts with '<' after white space
RECURSIVE looksLikeHtml(_)
looksLikeHtml(t) ==
  IF t = <<>> THEN FALSE
  ELSE IF Head(t) \in {9, 10, 13, 32} THEN looksLikeHtml(Tail(t))
  ELSE Head(t) = 60

RECURSIVE setStatus(_, _)
RECURSIVE setBody(_, _)

\* response.status = code
setStatus(c, code) ==
  IF headersSent(c) THEN c
  ELSE IF statusThrows(c, code) # "none" THEN c
  ELSE LET c1 == [c EXCEPT !._explicitStatus = TRUE, !.statusCode = code.num]
           c2 == IF c1.httpVersionMajor < 2
                 THEN [c1 EXCEPT !.statusMessage = StatusText(code.num)]
                 ELSE c1
       IN IF Truthy(c2._body) /\ code.num \in EmptyStatus
          THEN setBody(c2, NullBody)
          ELSE c2

\* response.body = val
setBody(c, val) ==
  LET original == c._body
      c1 == IF original # val /\ original.kind = "stream"
            THEN destroy(c, original.id) ELSE c
      c2 == [c1 EXCEPT !._body = val]
  IN IF val.kind = "null"
     THEN LET c3 == IF c2.statusCode \notin EmptyStatus
                    THEN setStatus(c2, Num(204)) ELSE c2
          IN remove(remove(remove(c3, "content-type"), "content-length"),
                    "transfer-encoding")
     ELSE
       LET c3 == IF ~c2._explicitStatus THEN setStatus(c2, Num(200)) ELSE c2
           setTypeFlag == "content-type" \notin DOMAIN c3.headers
       IN CASE val.kind = "text" ->
                 setLength(
                   IF setTypeFlag
                   THEN setType(c3, IF looksLikeHtml(val.val) THEN "html" ELSE "text")
                   ELSE c3,
                   byteLength(val.val))
            [] val.kind = "buffer" ->
                 setLength(IF setTypeFlag THEN setType(c3, "bin") ELSE c3,
                           Len(val.val))
            [] val.kind = "stream" ->
                 LET c4 == IF setTypeFlag THEN setType(c3, "bin") ELSE c3
                     c5 == [c4 EXCEPT
                              !.onFinished = Append(@, [fn |-> "destroy", id |-> val.id]),
                              !.streams[val.id].listeners = @ + 1,
                              !.streams[val.id].state =
                                 IF @ = "none" THEN "open" ELSE @]
                 IN IF original.kind # "null" /\ original # val
                    THEN remove(c5, "content-length") ELSE c5
            [] OTHER ->
                 remove(setType(c3, "json"), "content-length")

\* -------------------------------------------------------------- request.js
\* get without the special case of Referrer and Referer
get_noAlias(c, field) ==
  IF field \in DOMAIN c.reqHeaders THEN c.reqHeaders[field] ELSE <<>>

\* request.get(field), field in lower case: the header, '' when it is absent
\* or empty; Referrer and Referer stand for each other
get(c, field) ==
  LET headers == c.reqHeaders
      value(k) == IF k \in DOMAIN headers THEN headers[k] ELSE <<>>
  IN IF field \in {"referer", "referrer"}
     THEN IF value("referrer") # <<>> THEN value("referrer") ELSE value("referer")
     ELSE value(field)

\* \s
IsSpace(cp) == cp \in {9, 10, 11, 12, 13, 32}

RECURSIVE trimEnd(_)
trimEnd(t) ==
  IF t # <<>> /\ IsSpace(t[Len(t)]) THEN trimEnd(SubSeq(t, 1, Len(t) - 1)) ELSE t

RECURSIVE trimStart(_)
trimStart(t) ==
  IF t # <<>> /\ IsSpace(Head(t)) THEN trimStart(Tail(t)) ELSE t

\* t.split(/\s*,\s*/): the pieces between commas, without the white space
\* next to a comma
RECURSIVE splitList(_)
splitList(t) ==
  IF \A k \in DOMAIN t : t[k] # 44 THEN <<t>>
  ELSE LET k == CHOOSE i \in DOMAIN t : t[i] = 44 /\ \A j \in 1..(i - 1) : t[j] # 44
       IN <<trimEnd(SubSeq(t, 1, k - 1))>>
            \o splitList(trimStart(SubSeq(t, k + 1, Len(t))))

\* request.ips
ips(c) ==
  IF ~c.app.proxy THEN <<c.remoteAddress>>
  ELSE LET forwarded == get(c, "x-forwarded-for")
       IN IF forwarded # <<>> THEN splitList(forwarded) ELSE <<>>

\* request.ip
ip(c) == IF ips(c) # <<>> /\ ips(c)[1] # <<>> THEN ips(c)[1] ELSE <<>>

\* http
Http == <<104, 116, 116, 112>>
\* https
Https == <<104, 116, 116, 112, 115>>

\* request.protocol
protocol(c) ==
  IF c.encrypted THEN Https
  ELSE IF ~c.app.proxy THEN Http
  ELSE LET proto == get(c, "x-forwarded-proto")
       IN IF proto # <<>> THEN splitList(proto)[1] ELSE Http

\* host that consults X-Forwarded-Host whatever the proxy setting
host_trustsForwarded(c) ==
  LET forwarded == get(c, "x-forwarded-host")
      h == IF forwarded # <<>> THEN forwarded ELSE get(c, "host")
  IN IF h # <<>> THEN splitList(h)[1] ELSE <<>>

\* request.host
host(c) ==
  LET forwarded == IF c.app.proxy THEN get(c, "x-forwarded-host") ELSE <<>>
      h == IF forwarded # <<>> THEN forwarded ELSE get(c, "host")
  IN IF h # <<>> THEN splitList(h)[1] ELSE <<>>

\* t.indexOf(cp), counted from 0; -1 when cp is not in t
indexOf(t, cp) ==
  IF \A k \in DOMAIN t : t[k] # cp THEN -1
  ELSE (CHOOSE i \in DOMAIN t : t[i] = cp /\ \A j \in 1..(i - 1) : t[j] # cp) - 1

\* request.hostname
hostname(c) ==
  LET h == host(c)
  IN IF h # <<>> /\ h[1] = 91
     THEN SubSeq(h, 1, indexOf(h, 93))
     ELSE IF indexOf(h, 58) >= 0 THEN SubSeq(h, 1, indexOf(h, 58)) ELSE h

\* a parsed url: the text it was parsed from (_raw), pathname, search and
\* query; hasSearch = FALSE is a search of null
NoParsedUrl ==
  [raw |-> <<>>, pathname |-> <<>>, search |-> <<>>, query |-> <<>>,
   hasSearch |-> FALSE]

\* parseurl's parse of a url that starts with '/' and has no '#' and no white
\* space: the pathname ends at the first '?', search starts there and query
\* after it
fastparse(url) ==
  LET q == indexOf(url, 63)
  IN IF q < 0
     THEN [raw |-> url, pathname |-> url, search |-> <<>>, query |-> <<>>,
           hasSearch |-> FALSE]
     ELSE [raw |-> url, pathname |-> SubSeq(url, 1, q),
           search |-> SubSeq(url, q + 1, Len(url)),
           query |-> SubSeq(url, q + 2, Len(url)), hasSearch |-> TRUE]

\* parseurl(request): the parse kept on the request while its _raw is the
\* request's url, a new parse otherwise
parseurl(c) ==
  IF c._parsedUrl.raw = c.url THEN c._parsedUrl ELSE fastparse(c.url)

\* stringify(url): stringify is what require('url') returns, the url module
\* itself, an object that cannot be called
stringify(url) == [thrown |-> "TypeError", value |-> <<>>]

\* request.path
getPath(c) == parseurl(c).pathname

\* request.path = path: the parse kept on the request is changed before
\* stringify is called
setPath(c, path) ==
  LET url == parseurl(c)
  IN IF url.pathname = path THEN [c EXCEPT !._parsedUrl = url]
     ELSE LET url1 == [url EXCEPT !.pathname = path]
              str == stringify(url1)
          IN IF str.thrown # "none" THEN [c EXCEPT !._parsedUrl = url1]
             ELSE [c EXCEPT !.url = str.value, !._parsedUrl = url1]

\* request.search
getSearch(c) == parseurl(c).search

\* request.search = str
setSearch(c, str) ==
  LET url == parseurl(c)
  IN IF url.hasSearch /\ url.search = str THEN [c EXCEPT !._parsedUrl = url]
     ELSE LET url1 == [url EXCEPT !.search = str, !.hasSearch = TRUE]
              s == stringify(url1)
          IN IF s.thrown # "none" THEN [c EXCEPT !._parsedUrl = url1]
             ELSE [c EXCEPT !.url = s.value, !._parsedUrl = url1]

\* request.querystring
getQuerystring(c) == parseurl(c).query

\* request.querystring = str
setQuerystring(c, str) == setSearch(c, str)

\* querystring.stringify(obj) for an object held as the sequence of its
\* <<key, value>> pairs, keys and values free of reserved characters
RECURSIVE querystringStringify(_)
querystringStringify(obj) ==
  IF obj = <<>> THEN <<>>
  ELSE obj[1][1] \o <<61>> \o obj[1][2]
         \o (IF Len(obj) > 1 THEN <<38>> \o querystringStringify(Tail(obj))
             ELSE <<>>)

\* querystring.parse(str) for pairs with distinct keys
RECURSIVE querystringParse(_)
querystringParse(str) ==
  IF str = <<>> THEN <<>>
  ELSE LET a == indexOf(str, 38)
           pair == IF a < 0 THEN str ELSE SubSeq(str, 1, a)
           rest == IF a < 0 THEN <<>> ELSE SubSeq(str, a + 2, Len(str))
           e == indexOf(pair, 61)
           kv == IF e < 0 THEN <<pair, <<>>>>
                 ELSE <<SubSeq(pair, 1, e), SubSeq(pair, e + 2, Len(pair))>>
       IN <<kv>> \o querystringParse(rest)

\* request.query
getQuery(c) == querystringParse(getQuerystring(c))

\* request.query = obj
setQuery(c, obj) == setQuerystring(c, querystringStringify(obj))

\* what the assignment of a url component throws
urlThrows(c, o) ==
  LET url == parseurl(c)
      same == CASE o.op = "path" -> url.pathname = o.arg
                [] o.op = "search" -> url.hasSearch /\ url.search = o.arg
                [] o.op = "querystring" -> url.hasSearch /\ url.search = o.arg
                [] OTHER ->
                     url.hasSearch /\ url.search = querystringStringify(o.arg)
  IN IF same THEN "none" ELSE stringify(url).thrown

\* request.header and response.header: neither prototype defines an accessor
\* of that name, so both read as undefined
header(c) == [defined |-> FALSE, fields |-> NoHeaders]
responseHeader(c) == [defined |-> FALSE, fields |-> NoHeaders]

\* the headers of a request or response that are there
Defined(fields) == [defined |-> TRUE, fields |-> fields]

\* fresh(reqHeaders, resHeaders) of the fresh package, Cache-Control left
\* out: a request with no validator is stale; If-None-Match must be '*' or
\* name the ETag, weak or strong; If-Modified-Since must not be before
\* Last-Modified.  Times are whole seconds.
fresh(reqHeaders, resHeaders) ==
  IF ~reqHeaders.defined THEN [thrown |-> "TypeError", value |-> FALSE]
  ELSE
    LET req == reqHeaders.fields
        res == resHeaders.fields
        noneMatch == IF "if-none-match" \in DOMAIN req
                     THEN req["if-none-match"] ELSE <<>>
        hasSince == "if-modified-since" \in DOMAIN req
        etag == IF "etag" \in DOMAIN res THEN res["etag"] ELSE <<>>
        weak(t) == <<87, 47>> \o t
        etagStale ==
          \/ etag = <<>>
          \/ \A k \in DOMAIN splitList(noneMatch) :
                LET match == splitList(noneMatch)[k]
                IN match # etag /\ match # weak(etag) /\ weak(match) # etag
        modifiedStale ==
          \/ "last-modified" \notin DOMAIN res
          \/ ~(res["last-modified"] <= req["if-modified-since"])
    IN IF noneMatch = <<>> /\ ~hasSince THEN [thrown |-> "none", value |-> FALSE]
       ELSE IF ~resHeaders.defined THEN [thrown |-> "TypeError", value |-> FALSE]
       ELSE IF noneMatch # <<>> /\ noneMatch # <<42>> /\ etagStale
       THEN [thrown |-> "none", value |-> FALSE]
       ELSE IF hasSince /\ modifiedStale THEN [thrown |-> "none", value |-> FALSE]
       ELSE [thrown |-> "none", value |-> TRUE]

\* res.status: the transport response has a statusCode and no status
resStatus(c) == Undefined

\* request.fresh
getFresh(c) ==
  LET method == c.method
      status == resStatus(c)
  IN IF method # "GET" /\ method # "HEAD"
     THEN [thrown |-> "none", value |-> FALSE]
     ELSE IF /\ status.type = "number"
             /\ ((status.num >= 200 /\ status.num < 300) \/ status.num = 304)
     THEN fresh(header(c), responseHeader(c))
     ELSE [thrown |-> "none", value |-> FALSE]

\* accepts(req).types(type) for type 'html': without an Accept header every
\* type is accepted; otherwise a media range of the header has to cover
\* text/html
accepts(c, type) ==
  \/ "accept" \notin DOMAIN c.reqHeaders
  \/ type = "html" /\ c.reqHeaders["accept"] \in {"text/html", "text/*", "*/*"}

\* escape-html
RECURSIVE escape(_)
escape(t) ==
  IF t = <<>> THEN <<>>
  ELSE (CASE Head(t) = 34 -> <<38, 113, 117, 111, 116, 59>>
          [] Head(t) = 38 -> <<38, 97, 109, 112, 59>>
          [] Head(t) = 39 -> <<38, 35, 51, 57, 59>>
          [] Head(t) = 60 -> <<38, 108, 116, 59>>
          [] Head(t) = 62 -> <<38, 103, 116, 59>>
          [] OTHER -> <<Head(t)>>) \o escape(Tail(t))

\* back
Back == <<98, 97, 99, 107>>

\* response.redirect(url, alt); alt = '' stands for a call without alt
redirect(c, url, alt) ==
  LET referrer == get(c, "referrer")
      target == IF url # Back THEN url
                ELSE IF referrer # <<>> THEN referrer
                ELSE IF alt # <<>> THEN alt
                ELSE <<47>>
      c1 == set(c, "location", target)
      c2 == IF c1.statusCode \notin RedirectStatus
            THEN setStatus(c1, Num(302)) ELSE c1
  IN IF accepts(c2, "html")
     THEN \* Redirecting to <a href="${url}">${url}</a>.
          setBody(setType(c2, "html"),
                  TextBody(<<82, 101, 100, 105, 114, 101, 99, 116, 105, 110, 103, 32, 116,
                             111, 32, 60, 97, 32, 104, 114, 101, 102, 61, 34>>
                             \o escape(target) \o <<34, 62>> \o escape(target)
                             \o <<60, 47, 97, 62, 46>>))
     ELSE \* Redirecting to ${url}.
          setBody(setType(c2, "text"),
                  TextBody(<<82, 101, 100, 105, 114, 101, 99, 116, 105, 110, 103, 32, 116,
                             111, 32>>
                             \o target \o <<46>>))

\* ------------------------------------------------------------- application
\* a value passed to use: a function, known by its id, or something else
Fn(i) == [type |-> "function", id |-> i]

\* use that appends whatever it is given
use_unchecked(list, fn) ==
  [thrown |-> "none", middlewares |-> Append(list, fn.id), returned |-> "this"]

\* application.use(fn) on the middleware list: what it throws, the list
\* after it and what it returns
use(list, fn) ==
  IF fn.type # "function"
  THEN [thrown |-> "TypeError", middlewares |-> list, returned |-> "nothing"]
  ELSE [thrown |-> "none", middlewares |-> Append(list, fn.id),
        returned |-> "this"]

\* ------------------------------------------------------------ thrown values
\* A thrown value: [kind, num, status, code, expose, message, headers,
\* headerSent].  kind is "Error" or "TypeError" for an Error instance and
\* "null", "undefined", "number", "string", "object" otherwise; num is the
\* value of a number, message the message of an Error or the characters of a
\* string.  headers = NoHeaders stands for an error with no headers field.
Value(kind, num, msg) ==
  [kind |-> kind, num |-> num, status |-> Undefined, code |-> "",
   expose |-> FALSE, message |-> msg, headers |-> NoHeaders,
   headerSent |-> FALSE]

Error(status, code, expose, msg, headers) ==
  [kind |-> "Error", num |-> 0, status |-> status, code |-> code,
   expose |-> expose, message |-> msg, headers |-> headers,
   headerSent |-> FALSE]

\* error instanceof Error
instanceofError(v) == v.kind \in {"Error", "TypeError"}

\* JS truthiness of a thrown value
truthy(v) ==
  CASE v.kind \in {"null", "undefined"} -> FALSE
    [] v.kind = "number" -> v.num # 0
    [] v.kind = "string" -> v.message # <<>>
    [] OTHER -> TRUE

\* util.format('%j', v) for the values that are not Error instances
json(v) ==
  CASE v.kind = "number" -> String(v.num)
    [] v.kind = "string" -> <<34>> \o v.message \o <<34>>
    [] v.kind = "object" -> <<123, 125>>
    [] OTHER -> <<110, 117, 108, 108>>

\* new TypeError(util.format('non-error thrown: %j', v))
nonErrorThrown(v) ==
  Value("TypeError", 0,
        <<110, 111, 110, 45, 101, 114, 114, 111, 114, 32, 116, 104, 114,
          111, 119, 110, 58, 32>> \o json(v))

\* new Error('next() called multiple times'), the rejection of a repeated next()
nextCalledMultipleTimes ==
  Value("Error", 0,
        <<110, 101, 120, 116, 40, 41, 32, 99, 97, 108, 108, 101, 100, 32,
          109, 117, 108, 116, 105, 112, 108, 101, 32, 116, 105, 109, 101, 115>>)

Boom == <<98, 111, 111, 109>>
Oops == <<111, 111, 112, 115>>
\* "no" followed by U+00E9: four characters, five bytes
NoE == <<110, 111, 32, 233>>

Authenticate == [k \in {"www-authenticate"} |-> "Basic"]
Chunked == [k \in {"transfer-encoding", "content-length"} |->
              IF k = "content-length" THEN <<57>> ELSE "chunked"]

\* the Error instances that middleware, streams and the socket raise
Errors ==
  { Error(Undefined, "", FALSE, Boom, NoHeaders),
    Error(Num(400), "", TRUE, NoE, NoHeaders),
    Error(Num(401), "", TRUE, NoE, Authenticate),
    Error(Undefined, "ENOENT", FALSE, Boom, NoHeaders),
    Error(Num(400), "ENOENT", FALSE, Boom, NoHeaders),
    Error(Str(404), "", FALSE, Boom, NoHeaders),
    Error(Num(999), "ENOENT", FALSE, Boom, NoHeaders),
    Error(Num(304), "", FALSE, Boom, Chunked) }

\* what the middleware of the model throw
Thrown ==
  { Error(Undefined, "", FALSE, Boom, NoHeaders),
    Error(Num(401), "", TRUE, NoE, Authenticate),
    Error(Num(304), "", FALSE, Boom, Chunked),
    Value("number", 0, <<>>),
    Value("object", 0, <<>>) }

\* ------------------------------------------------- context: onerror, respond
\* res.headerSent as context.onerror reads it: the transport response has a
\* headersSent property and no headerSent property, so the read is undefined
resHeaderSent(c) == FALSE

\* the status with ENOENT taking precedence over the error's own status
errorStatus_enoentFirst(error) ==
  IF error.code = "ENOENT" THEN 404
  ELSE IF IsStatus(error.status) THEN error.status.num
  ELSE 500

\* the status context.onerror resolves for an error
errorStatus(error) ==
  IF IsStatus(error.status) THEN error.status.num
  ELSE IF error.code = "ENOENT" THEN 404
  ELSE 500

\* the message without the test of expose
errorMessage_alwaysOwn(error) == error.message

\* the message context.onerror sends for an error
errorMessage(error) ==
  IF error.expose THEN error.message ELSE StatusText(errorStatus(error))

\* context.onerror(error).  legacy: res.getHeaderNames is not a function, so
\* the headers are cleared by assignment; otherwise each header is removed
\* with res.removeHeader, which throws once the headers are sent.
onerror(c0, error, legacy) ==
  LET c == [c0 EXCEPT !.onerrorCalls = @ + 1]
  IN
  IF error.kind \in {"null", "undefined"} THEN c
  ELSE
    LET err == IF ~instanceofError(error) THEN nonErrorThrown(error) ELSE error
        headerSent == resHeaderSent(c) \/ ~writable(c)
        emitted == IF headerSent THEN [err EXCEPT !.headerSent = TRUE] ELSE err
        c1 == [c EXCEPT !.emitted = Append(@, emitted)]
    IN IF headerSent THEN c1
       ELSE IF ~legacy /\ c1.headersSent /\ DOMAIN c1.headers # {}
       THEN [c1 EXCEPT !.uncaught = TRUE]
       ELSE
         LET c2 == [c1 EXCEPT !.headers = NoHeaders]
             c3 == setAll(c2, err.headers)
             status == errorStatus(err)
             msg == errorMessage(err)
             c4 == setStatus(c3, Num(status))
             c5 == setType(c4, "text")
             c6 == setLength(c5, byteLength(msg))
         IN end(c6, TRUE, msg)

\* an isJSON that recognizes nothing
isJSON_never(b) == FALSE

\* koa-is-json: a structured value, neither null, text, buffer nor stream
isJSON(b) == b.kind = "json"

\* body.pipe(res)
pipe(c, id) ==
  [c EXCEPT !.streams[id].state = IF @ = "open" THEN "piping" ELSE @,
            !.wire.piped = id]

\* context.respond()
respond(c0) ==
  LET c == [c0 EXCEPT !.respondCalls = @ + 1]
  IN
  IF ~writable(c) THEN c
  ELSE IF c.statusCode \in EmptyStatus
  THEN end(setBody(c, NullBody), FALSE, <<>>)
  ELSE IF c.method = "HEAD"
  THEN end(IF ~c.headersSent /\ isJSON(c._body)
           THEN setLength(c, byteLength(c._body.val)) ELSE c,
           FALSE, <<>>)
  ELSE
    LET body == c._body
    IN CASE body.kind = "null" ->
              LET text == IF message(c) # <<>> THEN message(c)
                          ELSE String(c.statusCode)
              IN end(IF ~c.headersSent
                     THEN setLength(setType(c, "text"), byteLength(text))
                     ELSE c,
                     TRUE, text)
         [] body.kind \in {"text", "buffer"} -> end(c, TRUE, body.val)
         [] body.kind = "stream" -> pipe(c, body.id)
         [] OTHER ->
              end(IF ~c.headersSent
                  THEN setLength(c, byteLength(body.val)) ELSE c,
                  TRUE, body.val)

\* ------------------------------------------------------------------ state
VARIABLES
  middlewares,  \* app.middlewares: the registered middleware, in order
  ctx,          \* the request's context, request, response and transport
  chain,        \* the composed chain's promise and whether then/catch ran
  frames,       \* per middleware: where it is, and how often it called next
  index,        \* compose's index of the last middleware dispatched
  log,          \* enter/exit of the middleware and respond, in order
  ops           \* the response assignments that may still be made, the
                \* kinds of assignment the middleware made, and the last
                \* assignment made

vars == <<middlewares, ctx, chain, frames, index, log, ops>>

\* the requests of the model: [method, httpVersionMajor, socket], socket
\* "none" for a transport response that has no socket set
\* an incoming message for GET / from 1.1.1.1 over a plain connection,
\* with no headers
IncomingMessage(method, major, socket) ==
  [ method |-> method, httpVersionMajor |-> major, socket |-> socket,
    url |-> <<47>>, headers |-> NoHeaders, encrypted |-> FALSE,
    remoteAddress |-> <<49, 46, 49, 46, 49, 46, 49>> ]

Requests ==
  { IncomingMessage("GET", 1, "writable"),
    IncomingMessage("HEAD", 1, "writable"),
    IncomingMessage("GET", 2, "writable"),
    IncomingMessage("GET", 1, "none") }

Hi == <<104, 105>>
\* {"a":1}
JsonA1 == <<123, 34, 97, 34, 58, 49, 125>>

Streams == 1..MaxStreams

\* what a middleware assigns to the response: [op, code, val]
Ops ==
  { [op |-> "status", code |-> Num(n), val |-> NullBody] : n \in {204} }
  \cup { [op |-> "body", code |-> Undefined, val |-> b] :
           b \in {NullBody, TextBody(Hi), JsonBody(JsonA1)}
                 \cup { StreamBody(i) : i \in Streams } }
  \cup { [op |-> o, code |-> Undefined, val |-> NullBody] : o \in {"set", "flush"} }

\* no assignment
NoOp == [op |-> "none", code |-> Undefined, val |-> NullBody]

\* <p>
Markup == <<32, 60, 112, 62>>
\* e with an acute accent: one character, two bytes
EAcute == <<233>>

\* the assignments made to a response on its own: every kind of status
\* value, every kind of body, and the header operations
ResponseOps ==
  { [op |-> "status", code |-> v, val |-> NullBody] :
      v \in {Num(200), Num(204), Num(304), Num(999), Str(200)} }
  \cup { [op |-> "body", code |-> Undefined, val |-> b] :
           b \in {NullBody, TextBody(<<>>), TextBody(Hi), TextBody(EAcute),
                  TextBody(Markup), BufferBody(<<0, 255, 7>>), JsonBody(JsonA1)}
                 \cup { StreamBody(i) : i \in Streams } }
  \cup { [op |-> o, code |-> Undefined, val |-> NullBody] :
           o \in {"set", "chunked", "append", "remove", "vary", "type",
                  "length", "etag", "lastModified", "flush"} }

\* the header operations and the setters built on them
HeaderOps ==
  {"set", "chunked", "append", "remove", "vary", "type", "length", "etag",
   "lastModified", "status"}

\* an assignment a middleware makes, with the arguments of the model
apply(c, o) ==
  CASE o.op = "status" -> setStatus(c, o.code)
    [] o.op = "body" -> setBody(c, o.val)
    [] o.op = "set" -> set(c, "x-middleware", "1")
    [] o.op = "chunked" -> set(c, "transfer-encoding", "chunked")
    [] o.op = "append" -> append(c, "link", <<"a">>)
    [] o.op = "remove" -> remove(c, "x-middleware")
    [] o.op = "vary" -> vary(c, "accept")
    [] o.op = "type" -> setType(c, "html")
    [] o.op = "length" -> setLength(c, 5)
    [] o.op = "etag" -> setEtag(c, <<97>>)
    [] o.op = "lastModified" -> setLastModified(c, 1500)
    [] OTHER -> flushHeaders(c)

\* what the assignment throws
throws(c, o) ==
  IF o.op = "status" THEN statusThrows(c, o.code) ELSE "none"

\* createContext with the explicit-status flag set from the start
createContext_flagSet(req) ==
  [ statusCode |-> 404, statusMessage |-> <<>>, headers |-> NoHeaders,
    headersSent |-> FALSE, finished |-> FALSE, socket |-> req.socket,
    method |-> req.method, httpVersionMajor |-> req.httpVersionMajor,
    url |-> req.url, originalUrl |-> req.url, reqHeaders |-> req.headers,
    encrypted |-> req.encrypted, remoteAddress |-> req.remoteAddress,
    _parsedUrl |-> NoParsedUrl, app |-> [proxy |-> FALSE],
    _explicitStatus |-> TRUE, _body |-> NullBody,
    streams |-> [i \in Streams |->
                   [state |-> "none", destroyed |-> FALSE, listeners |-> 0]],
    onFinished |-> <<[fn |-> "onerror", id |-> 0]>>,
    emitted |-> <<>>, uncaught |-> FALSE,
    onerrorCalls |-> 0, respondCalls |-> 0,
    wire |-> [endCalls |-> 0, ended |-> FALSE, hasPayload |-> FALSE,
              payload |-> <<>>, piped |-> 0] ]

\* application.createContext(req, res), followed by onFinished(res, onerror)
createContext(req) ==
  [ statusCode |-> 404, statusMessage |-> <<>>, headers |-> NoHeaders,
    headersSent |-> FALSE, finished |-> FALSE, socket |-> req.socket,
    method |-> req.method, httpVersionMajor |-> req.httpVersionMajor,
    url |-> req.url, originalUrl |-> req.url, reqHeaders |-> req.headers,
    encrypted |-> req.encrypted, remoteAddress |-> req.remoteAddress,
    _parsedUrl |-> NoParsedUrl, app |-> [proxy |-> FALSE],
    _explicitStatus |-> FALSE, _body |-> NullBody,
    streams |-> [i \in Streams |->
                   [state |-> "none", destroyed |-> FALSE, listeners |-> 0]],
    onFinished |-> <<[fn |-> "onerror", id |-> 0]>>,
    emitted |-> <<>>, uncaught |-> FALSE,
    onerrorCalls |-> 0, respondCalls |-> 0,
    wire |-> [endCalls |-> 0, ended |-> FALSE, hasPayload |-> FALSE,
              payload |-> <<>>, piped |-> 0] ]

Init ==
  /\ middlewares = <<>>
  /\ ctx = createContext(IncomingMessage("GET", 1, "writable"))
  /\ chain = [state |-> "setup", error |-> Value("undefined", 0, <<>>),
              handled |-> FALSE]
  /\ frames = <<>>
  /\ index = 0
  /\ log = <<>>
  /\ ops = [left |-> MaxOps, made |-> {}, last |-> NoOp]

\* application.use(fn), fn a function: the next middleware is registered
Use ==
  /\ chain.state = "setup"
  /\ Len(middlewares) < MaxMiddleware
  /\ middlewares' = use(middlewares, Fn(Len(middlewares) + 1)).middlewares
  /\ UNCHANGED <<ctx, chain, frames, index, log, ops>>


Active == {"before", "ready", "after"}

\* requestListener(req, res): createContext, onFinished(res, onerror), and
\* the call of the composed chain, which dispatches the first middleware
Request(req) ==
  /\ chain.state = "setup"
  /\ ctx' = createContext(req)
  /\ frames' = [i \in 1..Len(middlewares) |->
                  [state |-> IF i = 1 THEN "before" ELSE "idle", nextCalls |-> 0]]
  /\ index' = 1
  /\ chain' = [chain EXCEPT !.state = IF middlewares = <<>> THEN "resolved"
                                      ELSE "running"]
  /\ log' = IF middlewares = <<>> THEN <<>> ELSE <<[ev |-> "enter", i |-> 1]>>
  /\ UNCHANGED <<middlewares, ops>>

\* a middleware assigns to the response
MwOp(i, o) ==
  /\ chain.state = "running"
  /\ frames[i].state \in Active
  /\ ops.left > 0
  /\ ops' = [left |-> ops.left - 1, made |-> ops.made \cup {o.op}, last |-> o]
  /\ ctx' = apply(ctx, o)
  /\ UNCHANGED <<middlewares, chain, frames, index, log>>

\* a middleware awaits asynchronous work of its own before it calls next()
MwAwait(i) ==
  /\ chain.state = "running"
  /\ frames[i].state = "before"
  /\ frames' = [frames EXCEPT ![i].state = "suspended"]
  /\ UNCHANGED <<middlewares, ctx, chain, index, log, ops>>

MwResume(i) ==
  /\ chain.state = "running"
  /\ frames[i].state = "suspended"
  /\ frames' = [frames EXCEPT ![i].state = "ready"]
  /\ UNCHANGED <<middlewares, ctx, chain, index, log, ops>>

\* the rejection of middleware i, which every middleware awaiting it passes on
rejected(fr, i) ==
  [j \in DOMAIN fr |->
     IF j <= i /\ fr[j].state \in Active \cup {"waiting"}
     THEN [fr[j] EXCEPT !.state = "rejected"] ELSE fr[j]]

\* middleware i awaits next(), that is dispatch(i + 1): a repeated call is
\* rejected; the call past the last middleware resolves at once; otherwise
\* the next middleware starts
MwNext(i) ==
  /\ chain.state = "running"
  /\ frames[i].state \in Active
  /\ LET called == [frames EXCEPT ![i].nextCalls = @ + 1]
     IN IF i + 1 <= index
        THEN /\ frames' = rejected(called, i)
             /\ chain' = [chain EXCEPT !.state = "rejected",
                                       !.error = nextCalledMultipleTimes]
             /\ UNCHANGED <<index, log>>
        ELSE /\ index' = i + 1
             /\ chain' = chain
             /\ IF i + 1 > Len(middlewares)
                THEN /\ frames' = [called EXCEPT ![i].state = "after"]
                     /\ log' = log
                ELSE /\ frames' = [called EXCEPT ![i].state = "waiting",
                                                 ![i + 1].state = "before"]
                     /\ log' = Append(log, [ev |-> "enter", i |-> i + 1])
  /\ UNCHANGED <<middlewares, ctx, ops>>

\* middleware i completes: the next() its caller awaits resolves, or the chain
MwReturn(i) ==
  /\ chain.state = "running"
  /\ frames[i].state \in Active
  /\ log' = Append(log, [ev |-> "exit", i |-> i])
  /\ IF i = 1
     THEN /\ frames' = [frames EXCEPT ![i].state = "resolved"]
          /\ chain' = [chain EXCEPT !.state = "resolved"]
     ELSE /\ frames' = [frames EXCEPT ![i].state = "resolved",
                                      ![i - 1].state = "after"]
          /\ chain' = chain
  /\ UNCHANGED <<middlewares, ctx, index, ops>>

\* middleware i throws v: the chain rejects with v
MwThrow(i, v) ==
  /\ chain.state = "running"
  /\ frames[i].state \in Active
  /\ frames' = rejected(frames, i)
  /\ chain' = [chain EXCEPT !.state = "rejected", !.error = v]
  /\ UNCHANGED <<middlewares, ctx, index, log, ops>>

\* a listener's onerror that does not call ctx.onerror
listenerOnerror_swallows(c, error, legacy) == c

\* the listener's onerror: error => error && ctx.onerror(error)
listenerOnerror(c, error, legacy) ==
  IF truthy(error) THEN onerror(c, error, legacy) ELSE c

\* the listener's respond: () => ctx.respond && ctx.respond()
listenerRespond(c) == respond(c)

\* respond called without waiting for the chain to settle
Then_withoutWaiting ==
  /\ chain.state \in {"running", "resolved"}
  /\ ~chain.handled
  /\ chain' = [chain EXCEPT !.handled = TRUE]
  /\ ctx' = listenerRespond(ctx)
  /\ log' = Append(log, [ev |-> "respond", i |-> 0])
  /\ UNCHANGED <<middlewares, frames, index, ops>>

\* middleware(ctx).then(respond)
Then ==
  /\ chain.state = "resolved"
  /\ ~chain.handled
  /\ chain' = [chain EXCEPT !.handled = TRUE]
  /\ ctx' = listenerRespond(ctx)
  /\ log' = Append(log, [ev |-> "respond", i |-> 0])
  /\ UNCHANGED <<middlewares, frames, index, ops>>

\* middleware(ctx).then(respond).catch(onerror)
Catch(legacy) ==
  /\ chain.state = "rejected"
  /\ ~chain.handled
  /\ chain' = [chain EXCEPT !.handled = TRUE]
  /\ ctx' = listenerOnerror(ctx, chain.error, legacy)
  /\ UNCHANGED <<middlewares, frames, index, log, ops>>

\* --------------------------------------------------------- transport events
\* what the socket reports with 'error'
SocketErrors == { Error(Undefined, "ECONNRESET", FALSE, Oops, NoHeaders) }

\* what a body stream reports with 'error'
StreamErrors == { Error(Undefined, "ENOENT", FALSE, Boom, NoHeaders) }

NoError == Value("null", 0, <<>>)

\* on-finished calls the registered listeners, in order, with err; a listener
\* that throws ends the delivery
RECURSIVE fire(_, _, _, _)
fire(c, listeners, err, legacy) ==
  IF listeners = <<>> THEN c
  ELSE LET l == Head(listeners)
           c1 == IF l.fn = "onerror" THEN listenerOnerror(c, err, legacy)
                 ELSE destroy(c, l.id)
       IN IF c1.uncaught /\ ~c.uncaught THEN c1
          ELSE fire(c1, Tail(listeners), err, legacy)

\* the stream's 'error' listeners added by error-inject: err => ctx.onerror(err)
RECURSIVE inject(_, _, _, _)
inject(c, n, err, legacy) ==
  IF n = 0 THEN c
  ELSE LET c1 == onerror(c, err, legacy)
       IN IF c1.uncaught /\ ~c.uncaught THEN c1
          ELSE inject(c1, n - 1, err, legacy)

\* the connection fails or closes: the socket is no longer writable and the
\* onFinished listeners are called, with the error if there is one
SocketFail(err, legacy) ==
  /\ chain.state # "setup"
  /\ ctx.socket = "writable"
  /\ ctx' = fire([ctx EXCEPT !.socket = IF err = NoError THEN "closed"
                                         ELSE "errored",
                            !.onFinished = <<>>],
                 ctx.onFinished, err, legacy)
  /\ UNCHANGED <<middlewares, chain, frames, index, log, ops>>

\* the response's 'finish' after end, and the deferred call of a listener
\* registered on a response that had finished already
Finish ==
  /\ chain.state # "setup"
  /\ ctx.finished \/ ctx.socket \in {"closed", "errored"}
  /\ ctx.onFinished # <<>>
  /\ ctx' = fire([ctx EXCEPT !.onFinished = <<>>], ctx.onFinished, NoError, FALSE)
  /\ UNCHANGED <<middlewares, chain, frames, index, log, ops>>

\* the piped stream writes a chunk: the headers go out with it
StreamData(id) ==
  /\ chain.state # "setup"
  /\ ctx.streams[id].state = "piping"
  /\ ~ctx.streams[id].destroyed
  /\ writable(ctx)
  /\ ctx' = [ctx EXCEPT !.headersSent = TRUE]
  /\ UNCHANGED <<middlewares, chain, frames, index, log, ops>>

\* the piped stream ends: the pipe ends the response
StreamEnd(id) ==
  /\ chain.state # "setup"
  /\ ctx.streams[id].state = "piping"
  /\ ~ctx.streams[id].destroyed
  /\ ctx' = end([ctx EXCEPT !.streams[id].state = "ended"], FALSE, <<>>)
  /\ UNCHANGED <<middlewares, chain, frames, index, log, ops>>

\* a body stream emits 'error'
StreamError(id, err, legacy) ==
  /\ chain.state # "setup"
  /\ ctx.streams[id].state \in {"open", "piping"}
  /\ ~ctx.streams[id].destroyed
  /\ ctx' = inject([ctx EXCEPT !.streams[id].state = "errored"],
                   ctx.streams[id].listeners, err, legacy)
  /\ UNCHANGED <<middlewares, chain, frames, index, log, ops>>

\* --------------------------------------------------------------- behaviours
Next ==
  \/ Use
  \/ \E req \in Requests : Request(req)
  \/ \E i \in DOMAIN frames, o \in Ops : MwOp(i, o)
  \/ \E i \in DOMAIN frames : MwAwait(i)
  \/ \E i \in DOMAIN frames : MwResume(i)
  \/ \E i \in DOMAIN frames : MwNext(i)
  \/ \E i \in DOMAIN frames : MwReturn(i)
  \/ \E i \in DOMAIN frames, v \in Thrown : MwThrow(i, v)
  \/ Then
  \/ \E legacy \in BOOLEAN : Catch(legacy)
  \/ \E e \in SocketErrors \cup {NoError}, legacy \in BOOLEAN : SocketFail(e, legacy)
  \/ Finish
  \/ \E id \in Streams : StreamData(id)
  \/ \E id \in Streams : StreamEnd(id)
  \/ \E id \in Streams, e \in StreamErrors, legacy \in BOOLEAN : StreamError(id, e, legacy)

Spec == Init /\ [][Next]_vars

\* ------------------------------------------- the response taken on its own
\* a context fresh from createContext, to which any caller makes assignments,
\* on which respond is called, and whose connection closes at any moment
InitResponse ==
  /\ middlewares = <<>>
  /\ ctx \in { createContext(req) : req \in Requests }
  /\ chain = [state |-> "running", error |-> Value("undefined", 0, <<>>),
              handled |-> FALSE]
  /\ frames = <<>>
  /\ index = 0
  /\ log = <<>>
  /\ ops = [left |-> MaxAssign, made |-> {}, last |-> NoOp]

\* one assignment to the response; of the kinds of assignment made, only
\* whether one other than a body assignment was among them is kept
Assign(o) ==
  /\ ops.left > 0
  /\ ops' = [ops EXCEPT !.left = @ - 1, !.last = o,
                        !.made = IF o.op = "body" THEN @ ELSE {"other"}]
  /\ ctx' = apply(ctx, o)
  /\ UNCHANGED <<middlewares, chain, frames, index, log>>

\* context.respond() on the response as it is, called once
Respond ==
  /\ ctx.respondCalls = 0
  /\ ctx' = respond(ctx)
  /\ ops' = [ops EXCEPT !.last = NoOp]
  /\ UNCHANGED <<middlewares, chain, frames, index, log>>

NextResponse ==
  \/ \E o \in ResponseOps : Assign(o)
  \/ Respond
  \/ SocketFail(NoError, FALSE)
  \/ Finish
  \/ \E id \in Streams : StreamData(id)
  \/ \E id \in Streams : StreamEnd(id)

ResponseSpec == InitResponse /\ [][NextResponse]_vars

\* ----------------------------- the request and the application's settings
\* a context fresh from createContext for one of a family of incoming
\* messages, on which any caller assigns url components, redirects, assigns
\* status and validators, and registers middleware

\* /a?x=1
UrlAX1 == <<47, 97, 63, 120, 61, 49>>
\* a.io:80
HostA == <<97, 46, 105, 111, 58, 56, 48>>
\* /prev
Prev == <<47, 112, 114, 101, 118>>
\* "a": the entity tag a, quoted
QuotedA == <<34, 97, 34>>

WithHeader(req, field, val) == [req EXCEPT !.headers = setHeader(@, field, val)]

\* GET /a?x=1 with a Host header
BaseRequest ==
  WithHeader([IncomingMessage("GET", 1, "writable") EXCEPT !.url = UrlAX1],
             "host", HostA)

\* the urls: /a, /a?x=1, /a?
UrlRequests ==
  { [BaseRequest EXCEPT !.url = u] : u \in {<<47, 97>>, UrlAX1, <<47, 97, 63>>} }

\* X-Forwarded-Proto: https, X-Forwarded-Host: b.io, a.io and
\* X-Forwarded-For: 2.2.2.2 , 3.3.3.3
Forwarded(req) ==
  WithHeader(WithHeader(WithHeader(req,
    "x-forwarded-proto", Https),
    "x-forwarded-host", <<98, 46, 105, 111, 44, 32, 97, 46, 105, 111>>),
    "x-forwarded-for", <<50, 46, 50, 46, 50, 46, 50, 32, 44, 32, 51, 46, 51, 46, 51, 46, 51>>)

\* with and without the forwarded headers, over a plain and an encrypted
\* connection, with and without Host
ProxiedRequests ==
  { [r EXCEPT !.encrypted = e] :
      e \in BOOLEAN,
      r \in { BaseRequest, Forwarded(BaseRequest),
              [BaseRequest EXCEPT !.headers = NoHeaders],
              Forwarded([BaseRequest EXCEPT !.headers = NoHeaders]) } }

\* with Referrer, with Referer and with neither; with and without an Accept
\* header that covers text/html
RedirectRequests ==
  { [r EXCEPT !.headers = IF a = "" THEN @ ELSE setHeader(@, "accept", a)] :
      a \in {"", "text/html", "application/json"},
      r \in { BaseRequest, WithHeader(BaseRequest, "referrer", Prev),
              WithHeader(BaseRequest, "referer", <<47, 111, 108, 100>>) } }

\* GET, HEAD and POST; with no validator, If-None-Match: "a",
\* If-None-Match: * and If-Modified-Since one second into the epoch
FreshRequests ==
  { [r EXCEPT !.method = m] :
      m \in {"GET", "HEAD", "POST"},
      r \in { BaseRequest, WithHeader(BaseRequest, "if-none-match", QuotedA),
              WithHeader(BaseRequest, "if-none-match", <<42>>),
              WithHeader(BaseRequest, "if-modified-since", 1) } }

IncomingRequests ==
  UrlRequests \cup ProxiedRequests \cup RedirectRequests \cup FreshRequests

\* a call on the request, the response or the application: [op, arg, alt]
Call(op, arg, alt) == [op |-> op, arg |-> arg, alt |-> alt]

UrlOps == {"path", "search", "querystring", "query"}

\* path = '/a', '/b'; search = '?x=1', '?y=2'; querystring = '', 'x=1',
\* 'y=2'; query = {x: '1'}, {y: '2', z: '3'}
UrlCalls ==
  { Call("path", t, <<>>) : t \in {<<47, 97>>, <<47, 98>>} }
  \cup { Call("search", t, <<>>) : t \in {<<63, 120, 61, 49>>, <<63, 121, 61, 50>>} }
  \cup { Call("querystring", t, <<>>) : t \in {<<>>, <<120, 61, 49>>, <<121, 61, 50>>} }
  \cup { Call("query", obj, <<>>) :
           obj \in { << <<<<120>>, <<49>>>> >>,
                     << <<<<121>>, <<50>>>>, <<<<122>>, <<51>>>> >> } }

\* redirect('back'), redirect('/login'), redirect('/?a&b="<'), each with and
\* without alt = '/alt'
RedirectCalls ==
  { Call("redirect", t, alt) :
      t \in {Back, <<47, 108, 111, 103, 105, 110>>, <<47, 63, 97, 38, 98, 61, 34, 60>>},
      alt \in {<<>>, <<47, 97, 108, 116>>} }

\* use(fn) with two functions, an object and undefined
UseCalls ==
  { Call("use", fn, <<>>) :
      fn \in { Fn(1), Fn(2), [type |-> "object", id |-> 0],
               [type |-> "undefined", id |-> 0] } }

\* the assignments to the response that request.fresh and redirect depend on
StatusOps ==
  { [op |-> "status", code |-> Num(n), val |-> NullBody] : n \in {200, 301, 304} }
  \cup { [op |-> o, code |-> Undefined, val |-> NullBody] :
           o \in {"etag", "lastModified", "flush"} }

\* a call on the request or the response
call(c, o) ==
  CASE o.op = "path" -> setPath(c, o.arg)
    [] o.op = "search" -> setSearch(c, o.arg)
    [] o.op = "querystring" -> setQuerystring(c, o.arg)
    [] o.op = "query" -> setQuery(c, o.arg)
    [] OTHER -> redirect(c, o.arg, o.alt)

InitRequest ==
  /\ middlewares = <<>>
  /\ ctx \in { createContext(req) : req \in IncomingRequests }
             \cup { [createContext(req) EXCEPT !.app.proxy = TRUE] :
                      req \in ProxiedRequests }
  /\ chain = [state |-> "running", error |-> Value("undefined", 0, <<>>),
              handled |-> FALSE]
  /\ frames = <<>>
  /\ index = 0
  /\ log = <<>>
  /\ ops = [left |-> MaxCalls, made |-> {}, last |-> NoOp]

\* one call on the request or of redirect
RequestCall(o) ==
  /\ ops.left > 0
  /\ ops' = [ops EXCEPT !.left = @ - 1, !.last = o]
  /\ ctx' = call(ctx, o)
  /\ UNCHANGED <<middlewares, chain, frames, index, log>>

\* application.use(fn), fn any value
UseValue(o) ==
  /\ ops.left > 0
  /\ ops' = [ops EXCEPT !.left = @ - 1, !.last = o]
  /\ middlewares' = use(middlewares, o.arg).middlewares
  /\ UNCHANGED <<ctx, chain, frames, index, log>>

NextRequest ==
  \/ \E o \in UrlCalls \cup RedirectCalls : RequestCall(o)
  \/ \E o \in UseCalls : UseValue(o)
  \/ \E o \in StatusOps : Assign(o)

RequestSpec == InitRequest /\ [][NextRequest]_vars

\* ------------------------------------------------------------------ claims
\* a step in which context.respond or context.onerror was invoked
HandlerStep ==
  \/ ctx'.onerrorCalls # ctx.onerrorCalls
  \/ ctx'.respondCalls # ctx.respondCalls

\* C1: over all interleavings of the chain, stream errors and the transport's
\* finish and error events, res.end is invoked at most once, and once the
\* response has been ended an invocation of respond or onerror changes no
\* header, no status, no body and nothing of what reached the wire.
C1_EndsAtMostOnce ==
  [][ /\ ctx'.wire.endCalls <= 1
      /\ (HandlerStep /\ ctx.wire.ended) =>
           /\ ctx'.headers = ctx.headers
           /\ ctx'.statusCode = ctx.statusCode
           /\ ctx'._body = ctx._body
           /\ ctx'.wire = ctx.wire ]_vars

\* onerror ended the response for a stream error, and respond ran afterwards
\* on a socket that was still writable, without piping and without ending
C1_Witness ==
  /\ ctx.wire.endCalls = 1
  /\ ctx.respondCalls = 1
  /\ ctx.onerrorCalls >= 1
  /\ ctx.socket = "writable"
  /\ ctx.wire.piped = 0
  /\ \E id \in Streams : ctx.streams[id].state = "errored"

\* the body stream that respond piped, if any, has run to completion
StreamCompleted ==
  ctx.wire.piped # 0 => ctx.streams[ctx.wire.piped].state = "ended"

\* C2: once the chain has settled and its then/catch handler has run, a
\* response that is still writable as far as the socket goes, whose headers
\* were not sent before a rejection was handled, and whose stream body, if
\* any, has run to completion, has been ended.
C2_SettledReachesSent ==
  ( /\ chain.handled
    /\ ctx.socket \notin {"closed", "errored"}
    /\ ~(chain.state = "rejected" /\ ctx.headersSent /\ ~ctx.finished)
    /\ StreamCompleted )
  => ctx.finished

\* no stream error and no socket failure has invoked onerror
OnlyTheChainFailed ==
  /\ ctx.socket \notin {"closed", "errored"}
  /\ \A id \in Streams : ctx.streams[id].state # "errored"

\* C3: when the chain has rejected with v and the rejection has been handled,
\* context.onerror was invoked exactly once for it and respond was not
\* invoked; a v that is no Error instance was emitted as the TypeError
\* 'non-error thrown: ...'.
C3_RejectionHandledOnce ==
  (chain.state = "rejected" /\ chain.handled /\ OnlyTheChainFailed) =>
    /\ ctx.onerrorCalls = 1
    /\ ctx.respondCalls = 0
    /\ ~instanceofError(chain.error) =>
         /\ Len(ctx.emitted) = 1
         /\ ctx.emitted[1].kind = "TypeError"
         /\ ctx.emitted[1].message = nonErrorThrown(chain.error).message

\* C4: an invocation of onerror on a response whose headers are sent, or that
\* is not writable, records headerSent = TRUE on the error it emits, and
\* changes no header, no status, no body and does not call end.
C4_NoWriteOnceHeadersSent ==
  [][ ( /\ ctx'.onerrorCalls > ctx.onerrorCalls
        /\ ctx.headersSent \/ ~writable(ctx) ) =>
        /\ Len(ctx'.emitted) > Len(ctx.emitted)
        /\ ctx'.emitted[Len(ctx'.emitted)].headerSent
        /\ ctx'.headers = ctx.headers
        /\ ctx'.statusCode = ctx.statusCode
        /\ ctx'._body = ctx._body
        /\ ctx'.wire = ctx.wire ]_vars

\* C5: a rejection of the chain that has been handled has led to an 'error'
\* event on the application, and so has every stream error; a socket error
\* that reaches the listener registered with onFinished adds one.
C5_FailureIsEmitted ==
  [][ /\ (chain'.state = "rejected" /\ chain'.handled) => ctx'.emitted # <<>>
      /\ (\E id \in Streams : ctx'.streams[id].state = "errored")
           => ctx'.emitted # <<>>
      /\ ( /\ ctx.socket = "writable" /\ ctx'.socket = "errored"
           /\ \E k \in DOMAIN ctx.onFinished : ctx.onFinished[k].fn = "onerror" )
           => Len(ctx'.emitted) > Len(ctx.emitted) ]_vars


\* the chain has rejected and the listener's catch is about to call onerror
AboutToCatch == chain.state = "rejected" /\ ~chain.handled

\* what the client can observe of the response
Client(c) ==
  [statusCode |-> c.statusCode, statusMessage |-> c.statusMessage,
   headers |-> c.headers, wire |-> c.wire]

Messages == {Oops, NoE}

\* C6: in every response state in which the catch is about to call onerror,
\* two errors that differ only in their message and are not exposed give the
\* same status, headers and payload; on a writable response with headers
\* unsent the payload is the reason phrase of the status written when expose
\* is falsy and the error's own message when it is truthy.
C6_UnexposedMessageHidden ==
  AboutToCatch =>
    \A e \in Errors, legacy \in BOOLEAN :
      /\ ~e.expose =>
           \A m \in Messages :
             Client(onerror(ctx, [e EXCEPT !.message = m], legacy))
               = Client(onerror(ctx, e, legacy))
      /\ (writable(ctx) /\ ~ctx.headersSent) =>
           LET r == onerror(ctx, e, legacy)
           IN /\ r.wire.ended /\ r.wire.hasPayload
              /\ r.wire.payload = IF e.expose THEN e.message
                                  ELSE StatusText(r.statusCode)

\* onerror has sent the reason phrase for an error whose message is 'boom', and
\* the message of an exposed error
C6_Witness ==
  /\ chain.state = "rejected" /\ chain.handled
  /\ ctx.wire.ended
  /\ Len(ctx.emitted) = 1
  /\ \/ /\ ctx.emitted[1].message = Boom /\ ~ctx.emitted[1].expose
        /\ ctx.wire.payload = StatusText(500)
     \/ /\ ctx.emitted[1].expose
        /\ ctx.wire.payload = NoE

\* C7: onerror on a writable response with headers unsent writes the error's
\* own status if it is a number and a recognized code, otherwise 404 if the
\* error's code is 'ENOENT', otherwise 500, whatever the status was before.
C7_ErrorStatus ==
  (AboutToCatch /\ writable(ctx) /\ ~ctx.headersSent) =>
    \A e \in Errors, legacy \in BOOLEAN :
      onerror(ctx, e, legacy).statusCode =
        IF e.status.type = "number" /\ e.status.num \in StatusCodes
        THEN e.status.num
        ELSE IF e.code = "ENOENT" THEN 404 ELSE 500

\* a stream body had set the status to 200, the stream failed with ENOENT and
\* onerror wrote 404
C7_Witness ==
  /\ \E id \in Streams : ctx.streams[id].state = "errored"
  /\ ctx.wire.ended
  /\ ctx.statusCode = 404
  /\ ctx.wire.payload = StatusText(404)

\* the headers carried on error e, with content-type text/plain and the
\* content-length of the payload of response r
ErrorHeaders(e, r) ==
  setHeader(setHeader(e.headers, "content-type",
                      [mime |-> "text/plain", charset |-> "utf-8"]),
            "content-length", String(byteLength(r.wire.payload)))

\* C8: an invocation of onerror that emits error e on a writable response
\* with headers unsent leaves exactly the headers carried on e, with
\* content-type text/plain and the content-length of the payload sent, so
\* that no header set before is left unless e carries it.
C8_OnlyErrorHeaders ==
  [][ ( /\ ctx'.onerrorCalls > ctx.onerrorCalls
        /\ Len(ctx'.emitted) > Len(ctx.emitted)
        /\ writable(ctx) /\ ctx'.socket = ctx.socket
        /\ ~ctx.headersSent ) =>
        ctx'.headers = ErrorHeaders(ctx'.emitted[Len(ctx'.emitted)], ctx') ]_vars

\* enter-1 .. enter-n
Enters(n) == [k \in 1..n |-> [ev |-> "enter", i |-> k]]

\* enter-1 .. enter-n, exit-n .. exit-1
Onion(n) ==
  [k \in 1..(2 * n) |->
     IF k <= n THEN [ev |-> "enter", i |-> k]
     ELSE [ev |-> "exit", i |-> 2 * n + 1 - k]]

\* every middleware called next() once and completed
EachCalledNextOnce ==
  \A i \in DOMAIN frames :
    frames[i].nextCalls = 1 /\ frames[i].state = "resolved"

\* C9: when each of the n middleware called next() once and completed, the
\* log is enter-1 .. enter-n, exit-n .. exit-1, then respond if it has run;
\* while a middleware does asynchronous work before its next(), the log is
\* enter-1 .. enter-i and nothing downstream has run; respond is always the
\* last entry and follows the first middleware's exit.
C9_OnionOrder ==
  LET n == Len(middlewares)
  IN /\ (chain.state = "resolved" /\ EachCalledNextOnce) =>
          /\ Len(log) >= 2 * n
          /\ SubSeq(log, 1, 2 * n) = Onion(n)
          /\ Len(log) > 2 * n =>
               log = Onion(n) \o <<[ev |-> "respond", i |-> 0]>>
     /\ \A i \in DOMAIN frames :
          frames[i].state \in {"suspended", "ready"} => log = Enters(i)
     /\ \A k \in DOMAIN log :
          log[k].ev = "respond" =>
            /\ k = Len(log)
            /\ n > 0 => log[k - 1] = [ev |-> "exit", i |-> 1]

\* three middleware ran as an onion and respond followed
C9_Witness ==
  /\ Len(middlewares) = 3
  /\ EachCalledNextOnce
  /\ log = Onion(3) \o <<[ev |-> "respond", i |-> 0]>>
  /\ ctx.wire.ended

\* middleware j was entered at most once
EnteredOnce(j) ==
  Cardinality({k \in DOMAIN log : log[k] = [ev |-> "enter", i |-> j]}) <= 1

\* C10: when a middleware has called next() a second time, the chain is
\* rejected with the error of the repeated call, no middleware was entered a
\* second time, and once the rejection is handled onerror has emitted it.
C10_RepeatedNextRejected ==
  /\ \A j \in DOMAIN frames : EnteredOnce(j)
  /\ \A i \in DOMAIN frames :
       frames[i].nextCalls >= 2 =>
         /\ chain.state = "rejected"
         /\ chain.error = nextCalledMultipleTimes
         /\ frames[i].state = "rejected"
         /\ chain.handled =>
              /\ ctx.onerrorCalls >= 1
              /\ \E k \in DOMAIN ctx.emitted :
                   ctx.emitted[k].message = nextCalledMultipleTimes.message

\* the second of two middleware called next() twice; onerror answered 500
C10_Witness ==
  /\ Len(middlewares) = 2
  /\ 2 \in DOMAIN frames
  /\ frames[2].nextCalls = 2
  /\ chain.handled
  /\ ctx.wire.ended
  /\ ctx.statusCode = 500
  /\ Len(ctx.emitted) = 1
  /\ ctx.emitted[1].message = nextCalledMultipleTimes.message

\* ------------------------------------------- claims on the response alone
\* a step that makes an assignment to the response
AssignStep == ops'.left < ops.left

\* the assignment left status, message, flag, body and headers as they were
StatusUntouched ==
  /\ ctx'.statusCode = ctx.statusCode
  /\ ctx'.statusMessage = ctx.statusMessage
  /\ ctx'._explicitStatus = ctx._explicitStatus
  /\ ctx'._body = ctx._body
  /\ ctx'.headers = ctx.headers

\* the status assignment of this step throws what its value calls for
InvalidStatusThrows ==
  LET code == ops'.last.code
  IN /\ code.type # "number" =>
          throws(ctx, ops'.last) = "TypeError" /\ StatusUntouched
     /\ (code.type = "number" /\ code.num \notin StatusCodes) =>
          throws(ctx, ops'.last) = "RangeError" /\ StatusUntouched

\* C11 as stated: in every state of a response, assigning a non-number to
\* status throws a TypeError, assigning an unrecognized number throws a
\* RangeError, and status, message, flag, body and headers stay as they were.
C11_InvalidStatusThrows ==
  [][ (AssignStep /\ ops'.last.op = "status") => InvalidStatusThrows ]_vars

\* C11 for a response whose headers are unsent: assigning a non-number to
\* status throws a TypeError, assigning an unrecognized number throws a
\* RangeError, and status, message, flag, body and headers stay as they were.
C11_InvalidStatusThrowsUnsent ==
  [][ (AssignStep /\ ops'.last.op = "status" /\ ~ctx.headersSent)
        => InvalidStatusThrows ]_vars

\* an invalid status was assigned to a response with status 200 and a body,
\* headers unsent, and both are as before
C11_Witness ==
  /\ ops.last.op = "status"
  /\ ops.last.code \in {Num(999), Str(200)}
  /\ ~ctx.headersSent
  /\ ctx.statusCode = 200
  /\ ctx._body = TextBody(Hi)

\* C12: while headers are unsent, a response whose status is an empty-body
\* status (204, 205, 304) has a null body.
C12_EmptyStatusHasNoBody ==
  (~ctx.headersSent /\ ctx.statusCode \in {204, 205, 304}) => ctx._body = NullBody

\* the headers that describe a body
BodyHeaders == {"content-type", "content-length", "transfer-encoding"}

\* C13: assigning an empty-body status while the body is not null and headers
\* are unsent makes the body null, removes Content-Type, Content-Length and
\* Transfer-Encoding, and leaves the assigned status in place.
C13_EmptyStatusNullsBody ==
  [][ ( /\ AssignStep /\ ops'.last.op = "status"
        /\ ops'.last.code.type = "number"
        /\ ops'.last.code.num \in {204, 205, 304}
        /\ ctx._body # NullBody
        /\ ~ctx.headersSent ) =>
        /\ ctx'._body = NullBody
        /\ BodyHeaders \cap DOMAIN ctx'.headers = {}
        /\ ctx'.statusCode = ops'.last.code.num ]_vars

\* C14: assigning null to body with headers unsent sets the status to 204
\* unless it is an empty-body status already, which it leaves; afterwards
\* Content-Type, Content-Length and Transfer-Encoding are absent and every
\* other header is as before.
C14_NullBody ==
  [][ ( /\ AssignStep /\ ops'.last.op = "body"
        /\ ops'.last.val = NullBody
        /\ ~ctx.headersSent ) =>
        /\ ctx'.statusCode = IF ctx.statusCode \in {204, 205, 304}
                             THEN ctx.statusCode ELSE 204
        /\ DOMAIN ctx'.headers = DOMAIN ctx.headers \ BodyHeaders
        /\ \A k \in DOMAIN ctx'.headers : ctx'.headers[k] = ctx.headers[k] ]_vars

\* null was assigned to body: the status is 204 or the 304 it was, no header
\* describes a body, and the header a middleware had set is still there
C14_Witness ==
  /\ ops.last.op = "body" /\ ops.last.val = NullBody
  /\ ops.left = 0
  /\ ~ctx.headersSent
  /\ ctx._body = NullBody
  /\ ctx.statusCode \in {204, 304}
  /\ DOMAIN ctx.headers = {"x-middleware"}

\* the assignment of a non-null body in this step set the status to 200 if no
\* status had been assigned, as on a fresh context, and left it otherwise
BodySetsStatus ==
  /\ ctx'.statusCode = IF ctx._explicitStatus THEN ctx.statusCode ELSE 200
  /\ ops.left = MaxAssign => ctx'.statusCode = 200

\* C15 as stated: assigning a non-null body sets the status to 200 while the
\* explicit-status flag is false, replacing the 404 of a fresh context, and
\* leaves the status code while the flag is true.
C15_BodySetsStatus ==
  [][ (AssignStep /\ ops'.last.op = "body" /\ ops'.last.val # NullBody)
        => BodySetsStatus ]_vars

\* C15 for a response whose headers are unsent.
C15_BodySetsStatusUnsent ==
  [][ ( /\ AssignStep /\ ops'.last.op = "body" /\ ops'.last.val # NullBody
        /\ ~ctx.headersSent ) => BodySetsStatus ]_vars

\* the first assignment to a fresh context was a text body; the status is 200
C15_Witness ==
  /\ ops.last.op = "body" /\ ops.last.val = TextBody(Hi)
  /\ ops.left = MaxAssign - 1
  /\ ctx._body = TextBody(Hi)
  /\ ctx.statusCode = 200
  /\ ctx._explicitStatus

\* the Content-Type that goes with a body of each kind
KindType(b) ==
  CASE b.kind = "text" ->
         IF looksLikeHtml(b.val)
         THEN [mime |-> "text/html", charset |-> "utf-8"]
         ELSE [mime |-> "text/plain", charset |-> "utf-8"]
    [] b.kind \in {"buffer", "stream"} ->
         [mime |-> "application/octet-stream", charset |-> ""]
    [] OTHER -> [mime |-> "application/json", charset |-> "utf-8"]

\* C16: assigning a non-null body of any kind with headers unsent leaves
\* the Content-Type that the middleware has just set with response.type as
\* it is, and without a Content-Type sets the one of the body's kind:
\* text/html for text that looks like markup, text/plain for other text,
\* application/octet-stream for a buffer or a stream, application/json for a
\* structured value.
C16_TypeInferredOnlyIfUnset ==
  [][ ( /\ AssignStep /\ ops'.last.op = "body" /\ ops'.last.val # NullBody
        /\ ~ctx.headersSent ) =>
        /\ "content-type" \in DOMAIN ctx'.headers
        /\ ("content-type" \in DOMAIN ctx.headers /\ ops.last.op = "type") =>
             ctx'.headers["content-type"] = ctx.headers["content-type"]
        /\ "content-type" \notin DOMAIN ctx.headers =>
             ctx'.headers["content-type"] = KindType(ops'.last.val) ]_vars

\* the number of bytes of the text and binary bodies of the model: 'hi' has
\* 2, e-acute 2 in one character, ' <p>' 4, the buffer 3
ByteCount(b) ==
  CASE b = TextBody(<<>>) -> 0
    [] b = TextBody(Hi) -> 2
    [] b = TextBody(EAcute) -> 2
    [] b = TextBody(Markup) -> 4
    [] OTHER -> 3

\* the Content-Length header of this step's assignment is as before the step
LengthKept ==
  /\ ("content-length" \in DOMAIN ctx'.headers)
       = ("content-length" \in DOMAIN ctx.headers)
  /\ "content-length" \in DOMAIN ctx.headers =>
       ctx'.headers["content-length"] = ctx.headers["content-length"]

\* after the assignment of a text or binary body in this step, Content-Length
\* and response.length are the body's number of bytes; after that of a
\* structured body there is no Content-Length
LengthOfBody ==
  LET b == ops'.last.val
  IN /\ b.kind \in {"text", "buffer"} =>
          /\ "content-length" \in DOMAIN ctx'.headers
          /\ ctx'.headers["content-length"] = String(ByteCount(b))
          /\ getLength(ctx') = ByteCount(b)
     /\ b.kind = "json" => "content-length" \notin DOMAIN ctx'.headers

\* C17 as stated: after assigning a text or binary body with headers unsent,
\* Content-Length and response.length are the body's number of bytes; after
\* assigning a structured or a stream body there is no Content-Length.
C17_LengthOfBody ==
  [][ ( /\ AssignStep /\ ops'.last.op = "body" /\ ops'.last.val # NullBody
        /\ ~ctx.headersSent ) =>
        /\ LengthOfBody
        /\ ops'.last.val.kind = "stream" =>
             "content-length" \notin DOMAIN ctx'.headers ]_vars

\* C17 with the stream body as the code has it: a stream that replaces a
\* different non-null body leaves no Content-Length; a stream assigned over
\* a null body, or assigned again, leaves Content-Length as it was.
C17_LengthOfBodyOverwriting ==
  [][ ( /\ AssignStep /\ ops'.last.op = "body" /\ ops'.last.val # NullBody
        /\ ~ctx.headersSent ) =>
        /\ LengthOfBody
        /\ ops'.last.val.kind = "stream" =>
             IF ctx._body # NullBody /\ ctx._body # ops'.last.val
             THEN "content-length" \notin DOMAIN ctx'.headers
             ELSE LengthKept ]_vars

\* the text of one two-byte character was assigned: Content-Length is '2'
C17_Witness ==
  /\ ops.last.op = "body" /\ ops.last.val = TextBody(EAcute)
  /\ ~ctx.headersSent
  /\ Len(ctx._body.val) = 1
  /\ "content-length" \in DOMAIN ctx.headers
  /\ ctx.headers["content-length"] = <<50>>
  /\ getLength(ctx) = 2

\* the response has finished or its connection is gone, and the listeners
\* registered with onFinished have been called
FinishedAndNotified ==
  /\ ctx.finished \/ ctx.socket \in {"closed", "errored"}
  /\ ctx.onFinished = <<>>

\* C18: an assignment that replaces a stream body by a different value, the
\* null forced by an empty-body status included, destroys the stream, and one
\* that leaves the body the same stream does not; and once the response has
\* finished or the connection has closed and the onFinished listeners have
\* run, every stream that was ever assigned is destroyed.
C18_StreamsDestroyed ==
  [][ /\ (AssignStep /\ ctx._body.kind = "stream") =>
           LET id == ctx._body.id
           IN IF ctx'._body # ctx._body
              THEN ctx'.streams[id].destroyed
              ELSE ctx'.streams[id].destroyed = ctx.streams[id].destroyed
      /\ FinishedAndNotified' =>
           \A id \in Streams :
             ctx'.streams[id].state # "none" => ctx'.streams[id].destroyed ]_vars

\* a stream body was replaced by a text while the response was still open:
\* the stream is destroyed, and its onFinished listener is still waiting
C18_Witness ==
  /\ ops.last.op = "body" /\ ops.last.val = TextBody(Hi)
  /\ ctx._body = TextBody(Hi)
  /\ ~ctx.finished /\ ctx.socket = "writable"
  /\ ctx.streams[1].state = "open"
  /\ ctx.streams[1].destroyed
  /\ \E k \in DOMAIN ctx.onFinished : ctx.onFinished[k].fn = "destroy"

\* C19: once headers are sent, set, append, remove and vary and the setters
\* type, length, etag, lastModified and status leave the headers and the
\* status code as they are and throw nothing, an invalid status included.
C19_NoOpOnceHeadersSent ==
  [][ (AssignStep /\ ctx.headersSent /\ ops'.last.op \in HeaderOps) =>
        /\ ctx'.headers = ctx.headers
        /\ ctx'.statusCode = ctx.statusCode
        /\ throws(ctx, ops'.last) = "none" ]_vars

\* after headers were flushed on a fresh context, a header operation or an
\* invalid status was tried: there is still no header and the status is 404
C19_Witness ==
  /\ ctx.headersSent /\ ~ctx.finished
  /\ \/ ops.last.op \in {"set", "append", "vary", "etag", "length", "type"}
     \/ ops.last.op = "status" /\ ops.last.code = Str(200)
  /\ ctx.headers = NoHeaders
  /\ ctx.statusCode = 404

\* a step in which context.respond was invoked
RespondStep == ctx'.respondCalls > ctx.respondCalls

\* respond ended the response in this step, with or without a payload
Ended(has) ==
  /\ ctx'.wire.endCalls = ctx.wire.endCalls + 1
  /\ ctx'.wire.ended /\ ctx'.finished
  /\ ctx'.wire.hasPayload = has
  /\ ctx'.wire.piped = ctx.wire.piped

\* the response has Content-Length n after the step
LengthIs(n) ==
  /\ "content-length" \in DOMAIN ctx'.headers
  /\ ctx'.headers["content-length"] = String(n)

\* the text respond sends for a null body
StatusBody ==
  IF ctx.statusMessage # <<>> THEN ctx.statusMessage ELSE String(ctx.statusCode)

\* what respond does in this step, by writable, status, method and body kind,
\* first match first; typed tells whether the status text of a null body is
\* to be described by Content-Type and Content-Length
RespondContract(typed) ==
  IF ~writable(ctx)
  THEN /\ ctx'.headers = ctx.headers /\ ctx'.statusCode = ctx.statusCode
       /\ ctx'._body = ctx._body /\ ctx'.wire = ctx.wire
       /\ ctx'.headersSent = ctx.headersSent
  ELSE IF ctx.statusCode \in {204, 205, 304}
  THEN ctx'._body = NullBody /\ Ended(FALSE)
  ELSE IF ctx.method = "HEAD"
  THEN /\ Ended(FALSE)
       /\ ctx'._body = ctx._body
       /\ (ctx._body.kind = "json" /\ ~ctx.headersSent) =>
            LengthIs(byteLength(ctx._body.val))
  ELSE CASE ctx._body.kind = "null" ->
              /\ Ended(TRUE)
              /\ ctx'.wire.payload = StatusBody
              /\ typed =>
                   /\ LengthIs(byteLength(StatusBody))
                   /\ "content-type" \in DOMAIN ctx'.headers
                   /\ ctx'.headers["content-type"] =
                        [mime |-> "text/plain", charset |-> "utf-8"]
         [] ctx._body.kind \in {"text", "buffer"} ->
              Ended(TRUE) /\ ctx'.wire.payload = ctx._body.val
         [] ctx._body.kind = "stream" ->
              /\ ctx'.wire.piped = ctx._body.id
              /\ ctx'.wire.endCalls = ctx.wire.endCalls
         [] OTHER ->
              /\ Ended(TRUE)
              /\ ctx'.wire.payload = ctx._body.val
              /\ ~ctx.headersSent => LengthIs(byteLength(ctx._body.val))

\* C20 as stated: respond is this function of writable, status, method and
\* body kind, the status text of a null body going out as text/plain with
\* its length.
C20_Respond ==
  [][ RespondStep => RespondContract(TRUE) ]_vars

\* C20 with the status text of a null body described by Content-Type and
\* Content-Length when headers are unsent.
C20_RespondUnsent ==
  [][ RespondStep => RespondContract(~ctx.headersSent) ]_vars

\* respond on a HEAD request with a structured body: ended with no payload
\* and with the Content-Length of the JSON text
C20_Witness ==
  /\ ctx.respondCalls = 1
  /\ ctx.method = "HEAD"
  /\ ctx._body = JsonBody(JsonA1)
  /\ ctx.wire.ended /\ ~ctx.wire.hasPayload
  /\ "content-length" \in DOMAIN ctx.headers
  /\ ctx.headers["content-length"] = <<55>>

\* C24: starting from a fresh context (status 404, flag false, body null),
\* after any sequence of body assignments with no direct status assignment,
\* whenever the last assigned body is non-null the status is 200.
C24_BodiesAloneGive200 ==
  (/\ ops.made = {}
   /\ ctx.respondCalls = 0
   /\ ops.last.op = "body"
   /\ ops.last.val.kind # "null"
   /\ ctx._body = ops.last.val) => ctx.statusCode = 200

\* ------------------------------- claims on the request and the application
\* a step that makes a call on the request, the response or the application
CallStep == ops'.left < ops.left

\* the Referrer header of the request, under either spelling; '' when absent
ReferrerOf(c) ==
  IF "referrer" \in DOMAIN c.reqHeaders THEN c.reqHeaders["referrer"]
  ELSE IF "referer" \in DOMAIN c.reqHeaders THEN c.reqHeaders["referer"]
  ELSE <<>>

\* the target of redirect(url, alt) on c
TargetOf(c, url, alt) ==
  IF url # <<98, 97, 99, 107>> THEN url
  ELSE IF ReferrerOf(c) # <<>> THEN ReferrerOf(c)
  ELSE IF alt # <<>> THEN alt
  ELSE <<47>>

\* Redirecting to <a href="u">u</a>.
AnchorTo(u) ==
  <<82, 101, 100, 105, 114, 101, 99, 116, 105, 110, 103, 32, 116, 111, 32>> \o <<60, 97, 32, 104, 114, 101, 102, 61, 34>>
    \o u \o <<34, 62>> \o u \o <<60, 47, 97, 62, 46>>

\* Redirecting to u.
PlainTo(u) ==
  <<82, 101, 100, 105, 114, 101, 99, 116, 105, 110, 103, 32, 116, 111, 32>> \o u \o <<46>>

\* the redirect of this step did what redirect is to do
Redirected ==
  LET target == TargetOf(ctx, ops'.last.arg, ops'.last.alt)
  IN /\ "location" \in DOMAIN ctx'.headers
     /\ ctx'.headers["location"] = target
     /\ ctx'.statusCode = IF ctx.statusCode \in RedirectStatus
                          THEN ctx.statusCode ELSE 302
     /\ IF accepts(ctx, "html")
        THEN /\ ctx'._body = TextBody(AnchorTo(escape(target)))
             /\ getType(ctx') = "text/html"
        ELSE /\ ctx'._body = TextBody(PlainTo(target))
             /\ getType(ctx') = "text/plain"

\* C21: redirect(url, alt) on a response with headers unsent sets Location to
\* the target, where 'back' stands for the request's Referrer header if
\* present, else alt, else '/'; it leaves the status unchanged when it is
\* already a redirect code and sets it to 302 otherwise; and it sets an HTML
\* anchor body of type text/html, the URL escaped in it, when the request
\* accepts HTML, else a plain-text body of type text/plain.
C21_Redirect ==
  [][ (CallStep /\ ops'.last.op = "redirect" /\ ~ctx.headersSent)
        => Redirected ]_vars

\* redirect('back') was called on a response with status 301 for a request
\* with Referer: /old that accepts HTML: Location is /old, the status is
\* still 301 and the body is the anchor
C21_Witness ==
  /\ ops.last.op = "redirect"
  /\ ops.last.arg = <<98, 97, 99, 107>>
  /\ ~ctx.headersSent
  /\ "referer" \in DOMAIN ctx.reqHeaders
  /\ "location" \in DOMAIN ctx.headers
  /\ ctx.headers["location"] = <<47, 111, 108, 100>>
  /\ ctx.statusCode = 301
  /\ ctx._body = TextBody(AnchorTo(<<47, 111, 108, 100>>))

\* list a is the beginning of list b
IsPrefix(a, b) == Len(a) <= Len(b) /\ SubSeq(b, 1, Len(a)) = a

\* the use of this step did what use is to do with its argument
Used ==
  LET fn == ops'.last.arg
      result == use(middlewares, fn)
  IN IF fn.type # "function"
     THEN /\ result.thrown = "TypeError"
          /\ middlewares' = middlewares
     ELSE /\ result.thrown = "none"
          /\ result.returned = "this"
          /\ middlewares' = Append(middlewares, fn.id)

\* C22: use(fn) with a non-callable value throws a type error and leaves the
\* middleware list unchanged; with a function it appends fn as the last
\* entry, keeps every existing entry and their order, and returns the
\* application itself; no operation removes or reorders entries of the list.
C22_Use ==
  [][ /\ IsPrefix(middlewares, middlewares')
      /\ (CallStep /\ ops'.last.op = "use") => Used ]_vars

\* use was called with a value that is not a function after function 2 was
\* registered, and the list is still <<2>>
C22_Witness ==
  /\ ops.last.op = "use"
  /\ ops.last.arg.type # "function"
  /\ middlewares = <<2>>

ForwardedNames == {"x-forwarded-proto", "x-forwarded-host", "x-forwarded-for"}

\* c with the forwarded headers of its request replaced by those of f
Reforwarded(c, f) ==
  [c EXCEPT !.reqHeaders =
     [k \in ((DOMAIN @) \ ForwardedNames) \cup (DOMAIN f) |->
        IF k \in DOMAIN f THEN f[k] ELSE @[k]]]

\* every choice of forwarded headers, present or not, with the values https
\* and c.io, 4.4.4.4
ForwardedChoices ==
  UNION { [S -> {Https, <<99, 46, 105, 111, 44, 32, 52, 46, 52, 46, 52, 46, 52>>}] :
            S \in SUBSET ForwardedNames }

\* what the request resolves to
Resolved(c) == <<protocol(c), host(c), hostname(c), ips(c), ip(c)>>

\* C23: when the application's proxy flag is false, the X-Forwarded-Proto,
\* X-Forwarded-Host and X-Forwarded-For request headers have no influence on
\* protocol, host, hostname, ips and ip: requests that differ only in these
\* headers resolve to the same values, protocol is https exactly when the
\* socket is encrypted, and ips is the single socket remote address.
C23_ForwardedIgnored ==
  ~ctx.app.proxy =>
    /\ \A f \in ForwardedChoices : Resolved(Reforwarded(ctx, f)) = Resolved(ctx)
    /\ protocol(ctx) = IF ctx.encrypted THEN Https ELSE Http
    /\ ips(ctx) = <<ctx.remoteAddress>>

\* a request with Host: a.io:80 and all three forwarded headers over a plain
\* connection, the proxy flag false: it resolves to http, a.io:80 and the
\* socket's address
C23_Witness ==
  /\ ~ctx.app.proxy
  /\ ~ctx.encrypted
  /\ ForwardedNames \subseteq DOMAIN ctx.reqHeaders
  /\ ctx.reqHeaders["x-forwarded-proto"] = Https
  /\ protocol(ctx) = Http
  /\ host(ctx) = <<97, 46, 105, 111, 58, 56, 48>>
  /\ hostname(ctx) = <<97, 46, 105, 111>>
  /\ ip(ctx) = ctx.remoteAddress

\* the assignment of this step reads back as the value assigned, and the
\* other component reads as before
RoundTrip ==
  LET o == ops'.last
  IN CASE o.op = "path" ->
            /\ getPath(ctx') = o.arg
            /\ getSearch(ctx') = getSearch(ctx)
            /\ getQuerystring(ctx') = getQuerystring(ctx)
       [] o.op = "search" ->
            getSearch(ctx') = o.arg /\ getPath(ctx') = getPath(ctx)
       [] o.op = "querystring" ->
            getQuerystring(ctx') = o.arg /\ getPath(ctx') = getPath(ctx)
       [] OTHER ->
            getQuery(ctx') = o.arg /\ getPath(ctx') = getPath(ctx)

\* the assignment of this step assigns the value the component has
SameValue ==
  LET o == ops'.last
  IN CASE o.op = "path" -> o.arg = getPath(ctx)
       [] o.op = "search" -> o.arg = getSearch(ctx)
       [] o.op = "querystring" -> o.arg = getQuerystring(ctx)
       [] OTHER -> o.arg = getQuery(ctx)

\* C25: the URL component setters of a request round-trip and keep the other
\* component: after request.path = p, path reads p and search and querystring
\* are as before; after request.querystring = q (or search, or query), it
\* reads q and path is as before; assigning the value a component already has
\* leaves the request URL unchanged.
C25_UrlSettersRoundTrip ==
  [][ (CallStep /\ ops'.last.op \in UrlOps)
        => /\ RoundTrip
           /\ SameValue => ctx'.url = ctx.url ]_vars

\* the response status is in 200..299 or is 304
Cacheable(c) == (c.statusCode >= 200 /\ c.statusCode < 300) \/ c.statusCode = 304

\* C26: request.fresh is false whenever the request method is neither GET nor
\* HEAD, and whenever the response status is outside 200..299 and is not 304;
\* for a GET or HEAD request whose response status is in 200..299 or is 304,
\* it is the result of the freshness check of the request's cache-validation
\* headers against the response's ETag and Last-Modified headers.
C26_Fresh ==
  LET stale == [thrown |-> "none", value |-> FALSE]
  IN /\ ctx.method \notin {"GET", "HEAD"} => getFresh(ctx) = stale
     /\ ~Cacheable(ctx) => getFresh(ctx) = stale
     /\ (ctx.method \in {"GET", "HEAD"} /\ Cacheable(ctx))
          => getFresh(ctx) = fresh(Defined(ctx.reqHeaders), Defined(ctx.headers))

====
